---------------------------- MODULE Spec2Model ----------------------------
(***************************************************************************)
(* A model of the blockchain-research collectors and of the unified       *)
(* dataset generator:                                                      *)
(*   - the on-disk content store written by the collectors                 *)
(*     (robust_collector.py, arweave_collector.py, data_collector.py,      *)
(*     solana_collector.py),                                               *)
(*   - the per-API rate limiter and the endpoint fallback of the fetchers  *)
(*     (robust_collector.py, arweave_collector.py, multichain_apis.py),    *)
(*   - the loading, deduplication and export of unified_dataset.py.        *)
(* Each part has its own specification over the shared variables; the     *)
(* variables a specification does not use keep their initial value.       *)
(***************************************************************************)
EXTENDS Integers, Sequences, FiniteSets, TLC

VARIABLES
    disk,        \* the file system: path -> [content, writes]
    collected,   \* the records returned by the store operations, in call order
    metadata,    \* the metadata files: name -> [exists, data]
    records,     \* UnifiedDatasetGenerator.records
    gpc,         \* where the generator is in run()
    runs,        \* how many times run() was started on the current generator
    exported,    \* blockchain_unified.jsonl: [written, records]
    clock,       \* time.time(), in seconds
    apis,        \* MultiAPICollector.apis: name -> [last_call, calls_this_minute]
    admissions,  \* the calls _wait_for_rate_limit has let through, per API
    workers,     \* threads inside _wait_for_rate_limit('hiro'): their locals
    requests,    \* the HTTP requests issued, in order
    last_fetch,  \* the last content fetch: who, what the endpoints answer,
                 \* the attempts made, the result
    mc,          \* MultiAPICollector.collect: its locals and what it has done
    ac,          \* ArweaveCollector.collect_by_type / collect_by_app: the same
    dc,          \* OrdinalsCollector.collect_by_type: its locals
    oc,          \* OvernightCollector.run: where it stands, its deadline, its
                 \* stats and what its collectors returned
    mn           \* main() of robust_collector.py and of solana_collector.py:
                 \* where it stands, its all_records, the runs so far

storeVars == <<disk, collected>>

unifyVars == <<metadata, records, gpc, runs, exported>>

limiterVars == <<clock, apis, admissions>>

workerVars == <<workers>>

fetchVars == <<requests, last_fetch>>

collectVars == <<mc, ac, dc>>

runVars == <<oc, mn>>

vars ==
    <<storeVars, unifyVars, limiterVars, workerVars, fetchVars, collectVars,
      runVars>>

(***************************************************************************)
(* Values                                                                  *)
(***************************************************************************)

\* Payloads are byte strings. b'' is the empty payload.
EmptyBytes == <<>>

Contents == {<<1>>, <<2, 2>>}

\* Item identifiers (inscription ids, transaction ids, token mints).
Ids == {"a", "b"}

\* Ordinals carried by an item: inscription number, block height.
Numbers == {1, 2}

\* A content type is the list of its '/'-separated tokens:
\* "image/png" is <<"image", "png">>, "unknown" is <<"unknown">>.
OctetStream == <<"application", "octet-stream">>

ImagePng == <<"image", "png">>

TextPlain == <<"text", "plain">>

ContentTypes == {ImagePng, TextPlain, <<"unknown">>}

\* A key that a dict does not hold (dict.get falls back to its default).
Missing == <<"<missing>">>

\* hashlib.sha256(content).hexdigest()[:16], kept symbolic: equal digests
\* iff equal payloads.
Hash16(content) == <<"sha256_16", content>>

\* The sum of f over S.
RECURSIVE Sum(_, _)
Sum(f, S) ==
    IF S = {} THEN 0
    ELSE LET x == CHOOSE y \in S : TRUE IN f[x] + Sum(f, S \ {x})

(***************************************************************************)
(* The content store                                                       *)
(***************************************************************************)

\* content_type.split('/')[0] if '/' in content_type else 'other'
Category(content_type) ==
    IF Len(content_type) >= 2 THEN content_type[1] ELSE "other"

\* ext_map.get(content_type, '.bin') for the content types of the model.
ExtMap(content_type) ==
    CASE content_type = ImagePng -> ".png"
      [] content_type = TextPlain -> ".txt"
      [] OTHER -> ".bin"

\* category_dir / f"{prefix}_{file_hash}{ext}" under one of the data roots.
FilePath(root, category, prefix, file_hash, ext) ==
    [root |-> root, category |-> category, prefix |-> prefix,
     hash |-> file_hash, ext |-> ext]

\* filepath.write_bytes(content): creates or overwrites the file. `writes`
\* counts the write_bytes calls that hit the path (what its mtime shows).
WriteBytes(d, path, content) ==
    IF path \in DOMAIN d
    THEN [d EXCEPT ![path] = [content |-> content, writes |-> @.writes + 1]]
    ELSE (path :> [content |-> content, writes |-> 1]) @@ d


\* The most store operations a run of the store specification performs.
MaxStores == 2

\* dict.get(key, default)
Get(value, default) == IF value = Missing THEN default ELSE value

\* What listings return for one inscription (Hiro /inscriptions results).
Inscriptions ==
    [id : Ids, number : Numbers, content_type : ContentTypes \cup {Missing}]

\* MultiAPICollector.save_inscription: the record it returns.
save_inscription_record(inscription, content) ==
    LET content_type == Get(inscription.content_type, OctetStream)
        file_hash == Hash16(content)
    IN  [id |-> inscription.id,
         number |-> inscription.number,
         content_type |-> content_type,
         content_length |-> Len(content),
         file_hash |-> file_hash,
         local_path |-> FilePath("ordinals", Category(content_type),
                                 inscription.number, file_hash,
                                 ExtMap(content_type))]

\* MultiAPICollector.save_inscription(inscription, content): writes the file
\* unconditionally and returns the record.
save_inscription(inscription, content) ==
    disk' = WriteBytes(disk,
                save_inscription_record(inscription, content).local_path,
                content)

\* records.append(self.save_inscription(insc, content)), as in collect().
store_inscription(inscription, content) ==
    /\ Len(collected) < MaxStores
    /\ save_inscription(inscription, content)
    /\ collected' =
           Append(collected, save_inscription_record(inscription, content))

\* What a request receives: an exception (timeout, connection error), a
\* non-200 status, or a 200 answer with a payload that may be empty.
Raised == [kind |-> "exception", content |-> EmptyBytes]

HttpError == [kind |-> "http_error", content |-> EmptyBytes]

Ok(content) == [kind |-> "ok", content |-> content]

Responses == {Raised, HttpError} \cup {Ok(c) : c \in Contents \cup {EmptyBytes}}

\* OrdinalsCollector.download_inscription: the InscriptionRecord it builds.
download_inscription_record(inscription, content) ==
    LET content_type == Get(inscription.content_type, <<"unknown">>)
        file_hash == Hash16(content)
    IN  [id |-> inscription.id,
         number |-> inscription.number,
         content_type |-> content_type,
         content_length |-> Len(content),
         file_hash |-> file_hash,
         local_path |-> FilePath("home_ordinals", Category(content_type),
                                 inscription.number, file_hash,
                                 ExtMap(content_type)),
         source |-> "ordinals"]

\* OrdinalsCollector.download_inscription(inscription) with the response the
\* content request receives: an exception, or the HTTPError raise_for_status
\* raises, is caught and None is returned; any 200 payload, empty or not, is
\* written and recorded.
download_inscription(inscription, response) ==
    /\ Len(collected) < MaxStores
    /\ IF response.kind # "ok"
       THEN UNCHANGED <<disk, collected>>
       ELSE LET record ==
                    download_inscription_record(inscription, response.content)
            IN  /\ disk' = WriteBytes(disk, record.local_path, response.content)
                /\ collected' = Append(collected, record)

\* Arweave GraphQL nodes: the Content-Type tag and data.type may be absent.
Transactions ==
    [id : Ids, tag_type : {ImagePng, Missing}, data_type : {TextPlain, Missing},
     height : Numbers]

\* tags.get('Content-Type', tx.get('data', {}).get('type', 'application/octet-stream'))
TransactionContentType(tx) ==
    Get(tx.tag_type, Get(tx.data_type, OctetStream))

\* ArweaveCollector.save_transaction: the record it returns.
save_transaction_record(tx, content) ==
    LET content_type == TransactionContentType(tx)
        file_hash == Hash16(content)
    IN  [id |-> tx.id,
         chain |-> "arweave",
         block_height |-> tx.height,
         content_type |-> content_type,
         content_length |-> Len(content),
         file_hash |-> file_hash,
         local_path |-> FilePath("arweave", Category(content_type),
                                 tx.height, file_hash, ExtMap(content_type))]

\* ArweaveCollector.save_transaction(tx, content)
save_transaction(tx, content) ==
    disk' = WriteBytes(disk, save_transaction_record(tx, content).local_path,
                       content)

\* records.append(self.save_transaction(tx, content)), as in collect_by_type().
store_transaction(tx, content) ==
    /\ Len(collected) < MaxStores
    /\ save_transaction(tx, content)
    /\ collected' = Append(collected, save_transaction_record(tx, content))

\* Magic Eden listings joined with their token data: the mint, the
\* collection and the suffix of the image url.
Collections == {"degods"}

Listings == [mint : Ids, collection : Collections, suffix : {".png", ".gif"}]

\* The extension chosen from the image url by collect_collection_nfts.
SolanaExt(suffix) ==
    CASE suffix = ".gif" -> ".gif"
      [] suffix \in {".jpg", ".jpeg"} -> ".jpg"
      [] suffix = ".webp" -> ".webp"
      [] OTHER -> ".png"

\* The content type chosen together with the extension.
SolanaContentType(suffix) ==
    CASE suffix = ".gif" -> <<"image", "gif">>
      [] suffix \in {".jpg", ".jpeg"} -> <<"image", "jpeg">>
      [] suffix = ".webp" -> <<"image", "webp">>
      [] OTHER -> ImagePng

\* SolanaCollector.collect_collection_nfts: the record built for one listing.
\* mint[:16] is the mint itself for the (short) mints of the model.
solana_record(listing, image_data) ==
    LET file_hash == Hash16(image_data)
        ext == SolanaExt(listing.suffix)
    IN  [id |-> listing.mint,
         chain |-> "solana",
         collection |-> listing.collection,
         content_type |-> SolanaContentType(listing.suffix),
         content_length |-> Len(image_data),
         file_hash |-> file_hash,
         local_path |-> FilePath("solana", listing.collection, listing.mint,
                                 file_hash, ext)]

\* SolanaCollector.collect_collection_nfts: the save of one downloaded image.
save_nft_image(listing, image_data) ==
    disk' = WriteBytes(disk, solana_record(listing, image_data).local_path,
                       image_data)

\* ... and records.append(record).
store_nft_image(listing, image_data) ==
    /\ Len(collected) < MaxStores
    /\ save_nft_image(listing, image_data)
    /\ collected' = Append(collected, solana_record(listing, image_data))

StoreInit ==
    /\ disk = <<>>
    /\ collected = <<>>

\* filepath.write_bytes(content) that fails (disk full, permission denied):
\* the file cannot be opened and nothing changes (written = -1), or it is
\* opened, which truncates it, and holds the bytes written before the error.
write_bytes_fails(d, path, content, written) ==
    IF written < 0 THEN d
    ELSE WriteBytes(d, path, SubSeq(content, 1, written))

\* MultiAPICollector.save_inscription(inscription, content) whose
\* write_bytes raises: the exception leaves save_inscription, no record is
\* returned.
save_inscription_fails(inscription, content, written) ==
    /\ disk' = write_bytes_fails(
                   disk,
                   save_inscription_record(inscription, content).local_path,
                   content, written)
    /\ UNCHANGED collected

\* The store operations of a run, complete or failed, write MaxStores files
\* at most.
StoreStep ==
    /\ Sum([path \in DOMAIN disk |-> disk[path].writes], DOMAIN disk)
           < MaxStores
    /\ \/ \E inscription \in Inscriptions, content \in Contents :
              store_inscription(inscription, content)
       \/ \E inscription \in Inscriptions, content \in Contents :
              \E written \in -1..(Len(content) - 1) :
                  save_inscription_fails(inscription, content, written)
       \/ \E inscription \in Inscriptions, response \in Responses :
              download_inscription(inscription, response)
       \/ \E tx \in Transactions, content \in Contents :
              store_transaction(tx, content)
       \/ \E listing \in Listings, image_data \in Contents :
              store_nft_image(listing, image_data)

(***************************************************************************)
(* The unified dataset generator (unified_dataset.py)                      *)
(***************************************************************************)

\* The most the generator is run over: every metadata file counts one, and
\* so does each of its entries and each write of a stored file.
MaxStock == 4

\* The most runs started on one generator.
MaxRuns == 2

\* metadata_files of load_bitcoin_data, in the order they are read.
BitcoinFiles ==
    <<"robust_collection.json", "ordinals_metadata.json",
      "ordinals_large_metadata.json", "extended_collection.json">>

ArweaveFile == "arweave_collection.json"

SolanaFile == "solana_collection.json"

MetadataFiles ==
    {BitcoinFiles[i] : i \in 1..Len(BitcoinFiles)} \cup {ArweaveFile, SolanaFile}

\* One entry of a metadata file, as the collectors write it. The fields that
\* the generator copies one to one (content_type, content_length,
\* local_path, ...) travel with the id.
Items == [id : Ids, file_hash : {Hash16(c) : c \in Contents}]

\* All sequences over S of length at most n.
SeqsUpTo(S, n) == UNION {[1..k -> S] : k \in 0..n}

NoFile == [exists |-> FALSE, data |-> <<>>]

\* What lies in the data directory, counted as MaxStock counts it.
Stock ==
    Sum([f \in MetadataFiles |->
            IF metadata[f].exists THEN 1 + Len(metadata[f].data) ELSE 0],
        MetadataFiles)
    + Sum([path \in DOMAIN disk |-> disk[path].writes], DOMAIN disk)

\* A collector's main() saves its records as one JSON list
\* (metadata_file.write_text(json.dumps(all_records))).
write_metadata(filename, data) ==
    /\ metadata' = [metadata EXCEPT ![filename] = [exists |-> TRUE, data |-> data]]
    /\ UNCHANGED <<records, gpc, runs, exported>>

\* hashlib.sha256(text.encode()).hexdigest()[:32], kept symbolic.
Sha32(text) == <<"sha256_32", text>>

\* The UnifiedRecord built from a metadata entry of a chain.
\* item.get('id', ''), item.get('file_hash', '').
UnifiedRecord(chain, item) ==
    [id |-> Sha32(item.id),
     chain |-> chain,
     chain_id |-> item.id,
     content_hash |-> item.file_hash]

\* The records of one metadata file, in file order.
FileRecords(chain, filename) ==
    LET data == metadata[filename].data
    IN  [i \in 1..Len(data) |-> UnifiedRecord(chain, data[i])]

\* load_bitcoin_data: appends the entries of every metadata file that exists,
\* file after file.
\* Mutant: the loop over the metadata files stops after the first file that
\* exists.
RECURSIVE bitcoin_records_first_file(_)
bitcoin_records_first_file(k) ==
    IF k = 0 THEN <<>>
    ELSE IF bitcoin_records_first_file(k - 1) # <<>>
         THEN bitcoin_records_first_file(k - 1)
         ELSE IF metadata[BitcoinFiles[k]].exists
              THEN FileRecords("bitcoin", BitcoinFiles[k])
              ELSE <<>>

RECURSIVE bitcoin_records(_)
bitcoin_records(k) ==
    IF k = 0 THEN <<>>
    ELSE bitcoin_records(k - 1) \o
         (IF metadata[BitcoinFiles[k]].exists
          THEN FileRecords("bitcoin", BitcoinFiles[k])
          ELSE <<>>)

load_bitcoin_data ==
    /\ gpc = "load_bitcoin"
    /\ records' = records \o bitcoin_records(Len(BitcoinFiles))
    /\ gpc' = "load_arweave"
    /\ UNCHANGED <<metadata, runs, exported>>

\* The files of a data root whose suffix the directory scan accepts.
ScannedFiles(root, suffixes) ==
    {path \in DOMAIN disk : path.root = root /\ path.ext \in suffixes}

\* The orders in which a directory scan can meet the files: iterdir() yields
\* the category directories, and the files of each, in arbitrary order.
ScanOrders(files) ==
    {order \in [1..Cardinality(files) -> files] :
        /\ \A i, j \in DOMAIN order : i # j => order[i] # order[j]
        /\ \A i, j, k \in DOMAIN order :
              (i < j /\ j < k /\ order[i].category = order[k].category)
                  => order[j].category = order[i].category}

\* file.stem and file.name of a stored file.
Stem(path) == <<path.prefix, path.hash>>

Name(path) == <<path.prefix, path.hash, path.ext>>

\* The record the Arweave directory scan builds for a file.
arweave_scan_record(path) ==
    [id |-> Sha32(Name(path)),
     chain |-> "arweave",
     chain_id |-> Stem(path),
     content_hash |-> Hash16(disk[path].content)]

\* load_arweave_data: the metadata file if it exists, else a directory scan.
load_arweave_data ==
    /\ gpc = "load_arweave"
    /\ IF metadata[ArweaveFile].exists
       THEN records' = records \o FileRecords("arweave", ArweaveFile)
       ELSE \E order \in ScanOrders(ScannedFiles("arweave",
                                {".png", ".gif", ".jpg", ".webp", ".svg"})) :
                records' = records \o
                    [i \in DOMAIN order |-> arweave_scan_record(order[i])]
    /\ gpc' = "load_solana"
    /\ UNCHANGED <<metadata, runs, exported>>

\* The record the Solana directory scan builds for a file:
\* chain_id is file.stem.split('_')[0].
solana_scan_record(path) ==
    [id |-> Sha32(Name(path)),
     chain |-> "solana",
     chain_id |-> path.prefix,
     content_hash |-> Hash16(disk[path].content)]

\* load_solana_data: the metadata file if it exists, else a directory scan.
load_solana_data ==
    /\ gpc = "load_solana"
    /\ IF metadata[SolanaFile].exists
       THEN records' = records \o FileRecords("solana", SolanaFile)
       ELSE \E order \in ScanOrders(ScannedFiles("solana",
                                {".png", ".gif", ".jpg", ".webp"})) :
                records' = records \o
                    [i \in DOMAIN order |-> solana_scan_record(order[i])]
    /\ gpc' = "deduplicate"
    /\ UNCHANGED <<metadata, runs, exported>>

\* key = f"{record.chain}:{record.content_hash}"
DedupKey(record) == <<record.chain, record.content_hash>>

\* The loop of deduplicate(): a record is kept when its key is new.
RECURSIVE dedup_loop(_, _, _, _)
dedup_loop(list, i, seen, unique) ==
    IF i > Len(list) THEN unique
    ELSE IF DedupKey(list[i]) \notin seen
         THEN dedup_loop(list, i + 1, seen \cup {DedupKey(list[i])},
                         Append(unique, list[i]))
         ELSE dedup_loop(list, i + 1, seen, unique)

\* Mutant: a later duplicate replaces the record kept for its key.
deduplicate_list_last_wins(list) ==
    LET unique == dedup_loop(list, 1, {}, <<>>)
    IN  [k \in DOMAIN unique |->
            LET last == CHOOSE i \in DOMAIN list :
                            /\ DedupKey(list[i]) = DedupKey(unique[k])
                            /\ \A j \in DOMAIN list :
                                   DedupKey(list[j]) = DedupKey(unique[k]) => j <= i
            IN  list[last]]

\* Mutant: seen.add(key) is left out, so no key is ever found in seen.
deduplicate_list_nothing_seen(list) == list

deduplicate_list(list) == dedup_loop(list, 1, {}, <<>>)

\* UnifiedDatasetGenerator.deduplicate()
deduplicate ==
    /\ gpc = "deduplicate"
    /\ records' = deduplicate_list(records)
    /\ gpc' = "export"
    /\ UNCHANGED <<metadata, runs, exported>>

\* UnifiedDatasetGenerator.export(): writes every record to the JSONL file.
export ==
    /\ gpc = "export"
    /\ exported' = [written |-> TRUE, records |-> records]
    /\ gpc' = "done"
    /\ UNCHANGED <<metadata, records, runs>>

\* main(): a new generator (records = []) and its run().
new_generator ==
    /\ gpc \in {"idle", "done"}
    /\ records' = <<>>
    /\ runs' = 1
    /\ gpc' = "load_bitcoin"
    /\ UNCHANGED <<metadata, exported>>

\* run() called again on the same generator: the records stay.
run_again ==
    /\ gpc = "done"
    /\ runs < MaxRuns
    /\ runs' = runs + 1
    /\ gpc' = "load_bitcoin"
    /\ UNCHANGED <<metadata, records, exported>>

UnifyInit ==
    /\ metadata = [f \in MetadataFiles |-> NoFile]
    /\ records = <<>>
    /\ gpc = "idle"
    /\ runs = 0
    /\ exported = [written |-> FALSE, records |-> <<>>]

\* The stored images the model lets the directory scans find.
ScanTransactions ==
    {tx \in Transactions :
        tx.id = "a" /\ tx.tag_type = ImagePng /\ tx.data_type = Missing}

ScanListings == {listing \in Listings : listing.suffix = ".png"}

\* The files the generator finds are whatever the collectors left before it
\* is started: metadata files, each written once, and stored images.
UnifyStep ==
    \/ /\ gpc = "idle"
       /\ Stock < MaxStock
       /\ \E filename \in {f \in MetadataFiles : ~metadata[f].exists},
             data \in SeqsUpTo(Items, MaxStock - Stock - 1) :
              write_metadata(filename, data)
       /\ UNCHANGED storeVars
    \/ /\ gpc = "idle"
       /\ Stock < MaxStock
       /\ \/ \E tx \in ScanTransactions, content \in Contents :
                 save_transaction(tx, content)
          \/ \E listing \in ScanListings, image_data \in Contents :
                 save_nft_image(listing, image_data)
       /\ UNCHANGED <<collected, unifyVars>>
    \/ /\ \/ new_generator
          \/ run_again
          \/ load_bitcoin_data
          \/ load_arweave_data
          \/ load_solana_data
          \/ deduplicate
          \/ export
       /\ UNCHANGED storeVars

(***************************************************************************)
(* The rate limiter of MultiAPICollector (robust_collector.py)             *)
(***************************************************************************)

\* The length of the limiter's window: "now - api['last_call'] > 60" and
\* "wait_time = 60 - (now - api['last_call'])".
Window == 60

\* Instants are multiples of Window / TicksPerWindow seconds.
TicksPerWindow == 3

TimeStep == Window \div TicksPerWindow

\* The clock of the model runs for MaxTicks steps after the start.
MaxTicks == 8

\* time.time() when the collector is built: later than a window after the
\* epoch, which is where last_call = 0 lies.
Epoch == Window + TimeStep

MaxClock == Epoch + MaxTicks * TimeStep

\* The most calls of _wait_for_rate_limit in a run of the limiter.
MaxCalls == 4

\* The rate limits of the APIs, per minute. The code has 60 for hiro, 100 for
\* ordiscan and 30 for bestinslot; the model keeps their order and scales
\* them down.
HiroLimit == 2

OrdiscanLimit == 3

BestinslotLimit == 1

ApiNames == {"hiro", "ordiscan", "bestinslot"}

rate_limit(api_name) ==
    CASE api_name = "hiro" -> HiroLimit
      [] api_name = "ordiscan" -> OrdiscanLimit
      [] api_name = "bestinslot" -> BestinslotLimit

\* MultiAPICollector.__init__: 'last_call': 0, 'calls_this_minute': 0
LimiterInit ==
    /\ clock = Epoch
    /\ apis = [a \in ApiNames |-> [last_call |-> 0, calls_this_minute |-> 0]]
    /\ admissions = [a \in ApiNames |-> <<>>]

\* "if now - api['last_call'] > 60": the counter is reset after an idle minute.
IdleReset(api, now) == now - api.last_call > Window

\* Mutant: the limit test is off by one (">" for ">=").
AtLimitOffByOne(api_name, calls) == calls > rate_limit(api_name)

\* "if api['calls_this_minute'] >= api['rate_limit']"
AtLimit(api_name, calls) == calls >= rate_limit(api_name)

\* Mutant: the wait is measured from the start of the window's last second.
WaitTimeShort(api, now) == Window - TimeStep - (now - api.last_call)

\* "wait_time = 60 - (now - api['last_call'])"
WaitTime(api, now) == Window - (now - api.last_call)

\* The counter once the idle test has run.
CallsAfterIdleTest(api, now) ==
    IF IdleReset(api, now) THEN 0 ELSE api.calls_this_minute

\* How long _wait_for_rate_limit sleeps: wait_time if the API is at its limit
\* and wait_time > 0, else not at all.
SleepTime(api_name, now) ==
    LET api == apis[api_name]
    IN  IF /\ AtLimit(api_name, CallsAfterIdleTest(api, now))
           /\ WaitTime(api, now) > 0
        THEN WaitTime(api, now)
        ELSE 0

\* The counter when the call returns: reset by the sleep, then incremented.
CallsAfterCall(api_name, now) ==
    (IF SleepTime(api_name, now) > 0
     THEN 0
     ELSE CallsAfterIdleTest(apis[api_name], now)) + 1

\* Mutant: one limiter state shared by all the APIs.
wait_for_rate_limit_shared(api_name, late) ==
    LET now == clock
        slept == SleepTime(api_name, now)
        returned == now + slept + late
    IN  /\ returned <= MaxClock
        /\ clock' = returned
        /\ apis' = [a \in ApiNames |->
                       [last_call |-> returned,
                        calls_this_minute |-> CallsAfterCall(api_name, now)]]
        /\ admissions' = [admissions EXCEPT ![api_name] =
                             Append(@, [arrived |-> now, slept |-> slept,
                                        admitted |-> returned])]

\* _wait_for_rate_limit(api_name), called by a single thread at `clock`.
\* `late` is the time that passes in the call on top of the sleep asked
\* for (time.sleep may oversleep; last_call is a second reading of the
\* clock). The call is let through when it returns.
wait_for_rate_limit(api_name, late) ==
    LET now == clock
        slept == SleepTime(api_name, now)
        returned == now + slept + late
    IN  /\ returned <= MaxClock
        /\ clock' = returned
        /\ apis' = [apis EXCEPT ![api_name] =
                       [last_call |-> returned,
                        calls_this_minute |-> CallsAfterCall(api_name, now)]]
        /\ admissions' = [admissions EXCEPT ![api_name] =
                             Append(@, [arrived |-> now, slept |-> slept,
                                        admitted |-> returned])]

\* Time passes between two calls.
tick ==
    /\ clock + TimeStep <= MaxClock
    /\ clock' = clock + TimeStep
    /\ UNCHANGED <<apis, admissions>>

\* The calls made so far.
RECURSIVE CallsMade(_)
CallsMade(names) ==
    IF names = {} THEN 0
    ELSE LET a == CHOOSE n \in names : TRUE
         IN  Len(admissions[a]) + CallsMade(names \ {a})

LimiterStep ==
    \/ /\ CallsMade(ApiNames) < MaxCalls
       /\ \E api_name \in {"hiro", "ordiscan"}, late \in {0, TimeStep} :
              wait_for_rate_limit(api_name, late)
    \/ tick

(***************************************************************************)
(* _wait_for_rate_limit called from two threads                            *)
(***************************************************************************)

\* The threads that call _wait_for_rate_limit('hiro') on one collector.
Workers == {"w1", "w2"}

\* A thread that has not called yet. entry_calls is calls_this_minute as
\* the thread entered; idled, waited and clobbered record the branches it
\* took and whether its increment overwrote a value it had not read.
NotCalled ==
    [pc |-> "idle", now |-> 0, entry_calls |-> 0, wait_time |-> 0,
     wake |-> 0, tmp |-> 0, idled |-> FALSE, waited |-> FALSE,
     clobbered |-> FALSE]

WorkersInit == workers = [w \in Workers |-> NotCalled]

\* The function takes no lock: a thread is at one statement of it, and the
\* other thread may run between any two of them.
at(w, pc) == workers[w].pc = pc

goto(w, changes) == workers' = [workers EXCEPT ![w] = changes]

set_calls(n) == apis' = [apis EXCEPT !["hiro"].calls_this_minute = n]

\* api = self.apis[api_name]; now = time.time()
enter(w) ==
    /\ at(w, "idle")
    /\ goto(w, [workers[w] EXCEPT
                   !.pc = "idle_test", !.now = clock,
                   !.entry_calls = apis["hiro"].calls_this_minute])
    /\ UNCHANGED limiterVars

\* if now - api['last_call'] > 60: api['calls_this_minute'] = 0
idle_test(w) ==
    /\ at(w, "idle_test")
    /\ IF IdleReset(apis["hiro"], workers[w].now)
       THEN /\ set_calls(0)
            /\ goto(w, [workers[w] EXCEPT !.pc = "limit_test",
                                          !.idled = TRUE])
       ELSE /\ goto(w, [workers[w] EXCEPT !.pc = "limit_test"])
            /\ UNCHANGED apis
    /\ UNCHANGED <<clock, admissions>>

\* if api['calls_this_minute'] >= api['rate_limit']:
limit_test(w) ==
    /\ at(w, "limit_test")
    /\ goto(w, [workers[w] EXCEPT !.pc =
                   IF AtLimit("hiro", apis["hiro"].calls_this_minute)
                   THEN "wait_time" ELSE "load_calls"])
    /\ UNCHANGED limiterVars

\* wait_time = 60 - (now - api['last_call']); if wait_time > 0: time.sleep
wait_time(w) ==
    /\ at(w, "wait_time")
    /\ LET t == WaitTime(apis["hiro"], workers[w].now)
       IN  goto(w, IF t > 0
                   THEN [workers[w] EXCEPT !.pc = "sleep", !.wait_time = t,
                                           !.wake = clock + t,
                                           !.waited = TRUE]
                   ELSE [workers[w] EXCEPT !.pc = "load_calls",
                                           !.wait_time = t])
    /\ UNCHANGED limiterVars

\* time.sleep(wait_time) returns; api['calls_this_minute'] = 0
wake_up(w) ==
    /\ at(w, "sleep")
    /\ clock >= workers[w].wake
    /\ set_calls(0)
    /\ goto(w, [workers[w] EXCEPT !.pc = "load_calls"])
    /\ UNCHANGED <<clock, admissions>>

\* api['calls_this_minute'] += 1 is a load, an add and a store.
load_calls(w) ==
    /\ at(w, "load_calls")
    /\ goto(w, [workers[w] EXCEPT !.pc = "store_calls",
                                  !.tmp = apis["hiro"].calls_this_minute])
    /\ UNCHANGED limiterVars

store_calls(w) ==
    /\ at(w, "store_calls")
    /\ set_calls(workers[w].tmp + 1)
    /\ goto(w, [workers[w] EXCEPT
                   !.pc = "stamp",
                   !.clobbered =
                       apis["hiro"].calls_this_minute # workers[w].tmp])
    /\ UNCHANGED <<clock, admissions>>

\* api['last_call'] = time.time(); the call returns.
stamp(w) ==
    /\ at(w, "stamp")
    /\ apis' = [apis EXCEPT !["hiro"].last_call = clock]
    /\ admissions' = [admissions EXCEPT !["hiro"] =
                         Append(@, [arrived |-> workers[w].now,
                                    slept |-> IF workers[w].waited
                                              THEN workers[w].wait_time
                                              ELSE 0,
                                    admitted |-> clock])]
    /\ goto(w, [workers[w] EXCEPT !.pc = "done"])
    /\ UNCHANGED clock

\* The calls the collector makes before the threads start, then one call by
\* each thread, while time passes.
WorkersStep ==
    \/ /\ \A w \in Workers : at(w, "idle")
       /\ Len(admissions["hiro"]) < MaxCalls - Cardinality(Workers)
       /\ wait_for_rate_limit("hiro", 0)
       /\ UNCHANGED workers
    \/ tick /\ UNCHANGED workers
    \/ \E w \in Workers :
           \/ enter(w)
           \/ idle_test(w)
           \/ limit_test(w)
           \/ wait_time(w)
           \/ wake_up(w)
           \/ load_calls(w)
           \/ store_calls(w)
           \/ stamp(w)

(***************************************************************************)
(* Requests and endpoint fallback                                          *)
(* (robust_collector.py, data_collector.py, arweave_collector.py,          *)
(* multichain_apis.py)                                                     *)
(***************************************************************************)

\* The most requests logged.
MaxRequests == 3

\* What a content request receives in the fetches below.
FetchResponses == {Raised, HttpError, Ok(EmptyBytes), Ok(<<1>>)}

\* The return value None, and a bytes return value.
None == [kind |-> "none", content |-> EmptyBytes]

Bytes(content) == [kind |-> "bytes", content |-> content]

\* A truth test that takes b'' for content.
TruthyIfBytes(value) == value.kind = "bytes"

\* `if content:` is false for None and for b''.
Truthy(value) == value.kind = "bytes" /\ value.content # EmptyBytes

\* resp.raise_for_status(); return resp.content, inside try/except returning
\* None: fetch_content_hiro and fetch_content_ordinals_com.
ContentOrNone(response) ==
    IF response.kind = "ok" THEN Bytes(response.content) ELSE None

\* The admissions made so far by the limiter that guards `source` in
\* collector `by`: only MultiAPICollector has one, for the names in apis.
AdmissionsSeen(collector, source, log) ==
    IF collector = "MultiAPICollector" /\ source \in ApiNames
    THEN Len(log[source])
    ELSE 0

\* session.get(url): the request as it is logged.
Request(collector, method, source, log) ==
    [collector |-> collector, method |-> method, source |-> source,
     admissions_seen |-> AdmissionsSeen(collector, source, log)]

Attempt(endpoint, response) == [endpoint |-> endpoint, response |-> response]

FetchInit ==
    /\ requests = <<>>
    /\ last_fetch = [by |-> "none", answers |-> <<>>, attempts |-> <<>>,
                     result |-> None]

\* MultiAPICollector.fetch_inscriptions_hiro: the limiter, then the request.
fetch_inscriptions_hiro(late) ==
    /\ wait_for_rate_limit("hiro", late)
    /\ requests' = Append(requests,
                          Request("MultiAPICollector",
                                  "fetch_inscriptions_hiro", "hiro",
                                  admissions'))
    /\ UNCHANGED last_fetch

\* MultiAPICollector.fetch_inscriptions_ordiscan: the limiter, then the
\* request.
fetch_inscriptions_ordiscan(late) ==
    /\ wait_for_rate_limit("ordiscan", late)
    /\ requests' = Append(requests,
                          Request("MultiAPICollector",
                                  "fetch_inscriptions_ordiscan", "ordiscan",
                                  admissions'))
    /\ UNCHANGED last_fetch

\* fetch_content_hiro without the call of the limiter.
fetch_content_hiro_unlimited(log, late) ==
    /\ UNCHANGED limiterVars
    /\ requests' = Append(log, Request("MultiAPICollector",
                                       "fetch_content_hiro", "hiro",
                                       admissions'))

\* MultiAPICollector.fetch_content_hiro, after the requests in `log`: the
\* limiter, then the request.
fetch_content_hiro(log, late) ==
    /\ wait_for_rate_limit("hiro", late)
    /\ requests' = Append(log, Request("MultiAPICollector",
                                       "fetch_content_hiro", "hiro",
                                       admissions'))

\* MultiAPICollector.fetch_content_ordinals_com: the request alone
\* ("no rate limit").
fetch_content_ordinals_com(log) ==
    Append(log, Request("MultiAPICollector", "fetch_content_ordinals_com",
                        "ordinals.com", admissions))

\* The endpoints of fetch_with_fallback, in the order it tries them.
FallbackEndpoints == <<"ordinals.com", "hiro">>

\* MultiAPICollector.fetch_with_fallback, with what ordinals.com and Hiro
\* answer: ordinals.com first; Hiro only if that gave nothing truthy; None
\* if Hiro gave nothing truthy either.
fetch_with_fallback(first, second, late) ==
    LET by_mirror == ContentOrNone(first)
        by_hiro == ContentOrNone(second)
        log == fetch_content_ordinals_com(requests)
    IN  IF Truthy(by_mirror)
        THEN /\ requests' = log
             /\ last_fetch' =
                    [by |-> "fetch_with_fallback",
                     answers |-> <<first, second>>,
                     attempts |-> <<Attempt(FallbackEndpoints[1], first)>>,
                     result |-> by_mirror]
             /\ UNCHANGED limiterVars
        ELSE /\ fetch_content_hiro(log, late)
             /\ last_fetch' =
                    [by |-> "fetch_with_fallback",
                     answers |-> <<first, second>>,
                     attempts |-> <<Attempt(FallbackEndpoints[1], first),
                                    Attempt(FallbackEndpoints[2], second)>>,
                     result |-> IF Truthy(by_hiro) THEN by_hiro ELSE None]

\* OrdinalsCollector.get_inscription_content, which the threads of
\* collect_by_type run through download_inscription: a request to the Hiro
\* API by a collector that has no limiter.
get_inscription_content ==
    /\ requests' = Append(requests,
                          Request("OrdinalsCollector",
                                  "get_inscription_content", "hiro",
                                  admissions))
    /\ UNCHANGED <<limiterVars, last_fetch>>

\* ArweaveCollector.gateways, in list order.
ArweaveGateways == <<"arweave.net", "ar-io.net", "g8way.io">>

\* IPFSGateway.gateways, in list order.
IPFSGateways ==
    <<"ipfs.io", "cloudflare-ipfs.com", "gateway.pinata.cloud", "dweb.link">>

\* The loop over the gateways that tries every gateway, whatever it answers.
gateway_attempts_all(gateways, responses, k) ==
    [i \in k..Len(gateways) |-> Attempt(gateways[i], responses[i])]

\* for gateway in self.gateways: the attempts from the k-th gateway on. A
\* status 200 returns; an exception or another status goes on to the next.
RECURSIVE gateway_attempts(_, _, _)
gateway_attempts(gateways, responses, k) ==
    IF k > Len(gateways)
    THEN <<>>
    ELSE IF responses[k].kind = "ok"
         THEN <<Attempt(gateways[k], responses[k])>>
         ELSE <<Attempt(gateways[k], responses[k])>>
                  \o gateway_attempts(gateways, responses, k + 1)

\* What the loop returns: resp.content of the answer with status 200,
\* None when the list is exhausted.
gateway_result(attempts) ==
    IF \E i \in DOMAIN attempts : attempts[i].response.kind = "ok"
    THEN LET i == CHOOSE j \in DOMAIN attempts :
                      attempts[j].response.kind = "ok"
         IN  Bytes(attempts[i].response.content)
    ELSE None

\* ArweaveCollector.fetch_content(tx_id), with what each gateway answers.
fetch_content(responses) ==
    LET attempts == gateway_attempts(ArweaveGateways, responses, 1)
    IN  /\ last_fetch' = [by |-> "fetch_content", answers |-> responses,
                          attempts |-> attempts,
                          result |-> gateway_result(attempts)]
        /\ UNCHANGED <<limiterVars, requests>>

\* IPFSGateway.get_content(cid), with what each gateway answers.
get_content(responses) ==
    LET attempts == gateway_attempts(IPFSGateways, responses, 1)
    IN  /\ last_fetch' = [by |-> "get_content", answers |-> responses,
                          attempts |-> attempts,
                          result |-> gateway_result(attempts)]
        /\ UNCHANGED <<limiterVars, requests>>

\* The collectors are separate programs: the fetches of one run are all by
\* the same one.
RunOf(by) == last_fetch.by \in {"none", by}

FetchStep ==
    \/ /\ RunOf("fetch_with_fallback")
       /\ Len(requests) < MaxRequests
       /\ \/ \E late \in {0, TimeStep} : fetch_inscriptions_hiro(late)
          \/ \E late \in {0, TimeStep} : fetch_inscriptions_ordiscan(late)
          \/ get_inscription_content
    \/ /\ RunOf("fetch_with_fallback")
       /\ Len(requests) + Len(FallbackEndpoints) <= MaxRequests
       /\ \E first, second \in FetchResponses, late \in {0, TimeStep} :
              fetch_with_fallback(first, second, late)
    \/ /\ RunOf("fetch_content")
       /\ requests = <<>>
       /\ \E responses \in [DOMAIN ArweaveGateways -> FetchResponses] :
              fetch_content(responses)
    \/ /\ RunOf("get_content")
       /\ requests = <<>>
       /\ \E responses \in [DOMAIN IPFSGateways -> FetchResponses] :
              get_content(responses)
    \/ tick /\ UNCHANGED fetchVars

(***************************************************************************)
(* MultiAPICollector.collect (robust_collector.py)                         *)
(***************************************************************************)

\* The most candidates the remote listing holds.
MaxListing == 3

\* The largest target count asked for.
MaxCount == 2

\* Where the tallies of what happened to an item stop counting.
MaxTally == 2

\* min(20, count - len(records)): the page size asked of the listing.
BatchLimit == 20

\* A listed item with no 'id' key.
NoId == 0

\* The i-th candidate of the remote listing, with or without its 'id'.
Candidate(i, has_id) ==
    [id |-> IF has_id THEN i ELSE NoId, number |-> i,
     content_type |-> ImagePng]

\* The remote listings: which of the candidates carry an id.
RemoteListings == UNION {[1..n -> BOOLEAN] : n \in 0..MaxListing}

Min(a, b) == IF a < b THEN a ELSE b

\* resp.json().get('results', []) for offset and limit on a listing.
Page(remote, offset, limit) ==
    [k \in 1..Min(limit, IF Len(remote) > offset THEN Len(remote) - offset
                         ELSE 0) |->
        Candidate(offset + k, remote[offset + k])]

\* What fetch_with_fallback returns for the answers of ordinals.com and
\* Hiro.
fallback_result(first, second) ==
    IF Truthy(ContentOrNone(first)) THEN ContentOrNone(first)
    ELSE IF Truthy(ContentOrNone(second)) THEN ContentOrNone(second)
    ELSE None

\* What happened to each candidate so far, counted up to MaxTally: entered
\* into the download loop, fetched, recorded, reported as failed.
NoTally == [admitted |-> 0, fetched |-> 0, recorded |-> 0, failed |-> 0]

Count(tally, i, field) ==
    [tally EXCEPT ![i][field] = Min(@ + 1, MaxTally)]

NoStep == [kind |-> "none", number |-> 0, answers |-> <<>>]

CollectorIdle ==
    [pc |-> "idle", by |-> "none", count |-> 0, remote |-> <<>>,
     records |-> <<>>,
     offset |-> 0, batch |-> <<>>, listed |-> 0,
     tally |-> [i \in 1..MaxListing |-> NoTally], last |-> NoStep]

\* collect(mime_type, count) is called: records = [], offset = 0.
collect(count, remote) ==
    /\ mc.pc = "idle"
    /\ mc' = [CollectorIdle EXCEPT !.pc = "loop", !.by = "collect",
                                   !.count = count, !.remote = remote]
    /\ UNCHANGED <<disk, ac>>

\* while len(records) < count: the listing call. It raises (the except
\* branch prints and sleeps), returns nothing (break) or returns a batch.
list_batch(raises) ==
    /\ mc.pc = "loop"
    /\ LET page == Page(mc.remote, mc.offset,
                        Min(BatchLimit, mc.count - Len(mc.records)))
       IN  mc' =
             IF Len(mc.records) >= mc.count
             THEN [mc EXCEPT !.pc = "returned", !.last = NoStep]
             ELSE IF raises
             THEN [mc EXCEPT !.pc = "error_sleep",
                             !.last = [NoStep EXCEPT !.kind = "listing_raised"]]
             ELSE IF page = <<>>
             THEN [mc EXCEPT !.pc = "returned", !.last = NoStep]
             ELSE [mc EXCEPT !.pc = "batch", !.batch = page,
                             !.listed = Len(page),
                             !.last = [NoStep EXCEPT !.kind = "listed"]]
    /\ UNCHANGED <<disk, ac>>

\* time.sleep(5) in the except branch is over; back to the while test.
error_sleep ==
    /\ mc.pc = "error_sleep"
    /\ mc' = [mc EXCEPT !.pc = "loop"]
    /\ UNCHANGED <<disk, ac>>

\* The state after the body of the for loop ran for the head of the batch:
\* the next item, or offset += len(inscriptions) after the last one.
NextItem(c) ==
    IF Len(c.batch) > 1
    THEN [c EXCEPT !.batch = Tail(c.batch)]
    ELSE [c EXCEPT !.batch = <<>>, !.pc = "loop",
                   !.offset = c.offset + c.listed]

\* An exception in the body of the for loop leaves the batch for the except
\* branch of the while loop; offset is not advanced.
Raise(c) == [c EXCEPT !.batch = <<>>, !.pc = "error_sleep"]

\* One pass of the for loop, for the head of the batch, with what
\* ordinals.com and Hiro answer and whether the disk takes the file:
\* insc['id'] raises KeyError on an item without id; a truthy content is
\* saved and its record appended; anything else is printed as failed.
download(first, second, disk_ok) ==
    /\ mc.pc = "batch"
    /\ LET insc == Head(mc.batch)
           i == insc.number
           content == fallback_result(first, second)
           entered == [mc EXCEPT !.tally = Count(mc.tally, i, "admitted")]
           fetched ==
               [entered EXCEPT
                   !.tally = Count(entered.tally, i, "fetched"),
                   !.last = [kind |-> "fetched", number |-> i,
                             answers |-> <<first, second>>]]
       IN  IF insc.id = NoId
           THEN /\ mc' = Raise([entered EXCEPT
                                   !.last = [NoStep EXCEPT
                                                !.kind = "item_raised",
                                                !.number = i]])
                /\ UNCHANGED disk
           ELSE IF ~Truthy(content)
           THEN /\ mc' = NextItem([fetched EXCEPT
                                     !.tally = Count(fetched.tally, i,
                                                     "failed")])
                /\ UNCHANGED disk
           ELSE IF ~disk_ok
           THEN /\ mc' = Raise(fetched)
                /\ UNCHANGED disk
           ELSE /\ save_inscription(insc, content.content)
                /\ mc' = NextItem(
                       [fetched EXCEPT
                           !.tally = Count(fetched.tally, i, "recorded"),
                           !.records =
                               Append(@, save_inscription_record(
                                             insc, content.content))])
    /\ UNCHANGED ac

(***************************************************************************)
(* ArweaveCollector.collect_by_type and collect_by_app                     *)
(* (arweave_collector.py)                                                  *)
(***************************************************************************)

\* if size and int(size) > 1_000_000: the ceiling on the declared size.
SizeCeiling == 1000000

\* tx.get('data', {}).get('size') is None: no size declared.
NoSize == -1

\* The declared sizes of the model.
Sizes == {NoSize, 0, SizeCeiling, SizeCeiling + 1}

\* The test that skips a transaction, with >= in place of >.
OversizedAtCeiling(size) == size # NoSize /\ size # 0 /\ size >= SizeCeiling

\* size and int(size) > 1_000_000
Oversized(size) == size # NoSize /\ size # 0 /\ size > SizeCeiling

\* The i-th transaction the search returns, with its declared size.
Transaction(i, size) ==
    [id |-> i, tag_type |-> ImagePng, data_type |-> Missing, height |-> i,
     size |-> size]

\* The most transactions a search returns.
MaxFound == 2

\* What a search returns: the declared sizes of its transactions.
SearchResults == UNION {[1..n -> Sizes] : n \in 0..MaxFound}

\* What a gateway answers a collector: an exception, an empty 200 answer or
\* a 200 answer with a payload (the fetch treats any other status like an
\* exception).
GatewayAnswers == {Raised, Ok(EmptyBytes), Ok(<<1>>)}

\* transactions[:count]
FirstN(list, n) == [k \in 1..Min(n, Len(list)) |-> list[k]]

\* collect_by_type / collect_by_app (`by`) is called and the search
\* returns, or raises, which the outer except turns into the return of [].
collect_by_type(by, count, found, raises) ==
    /\ ac.pc = "idle"
    /\ ac' = IF raises
             THEN [CollectorIdle EXCEPT
                      !.pc = "returned", !.by = by, !.count = count,
                      !.last = [NoStep EXCEPT !.kind = "search_raised"]]
             ELSE [CollectorIdle EXCEPT
                      !.pc = IF FirstN(found, count) = <<>>
                             THEN "returned" ELSE "loop",
                      !.by = by, !.count = count, !.remote = found,
                      !.batch = [k \in DOMAIN FirstN(found, count) |->
                                    Transaction(k, found[k])]]
    /\ UNCHANGED <<disk, mc>>

\* After the body of the for loop: break when the target is met, the next
\* transaction otherwise, the return after the last one.
NextTransaction(c) ==
    IF Len(c.records) >= c.count \/ Len(c.batch) <= 1
    THEN [c EXCEPT !.batch = <<>>, !.pc = "returned"]
    ELSE [c EXCEPT !.batch = Tail(c.batch)]

\* One pass of the for loop, for the head of the list, with what the
\* gateways answer and whether the disk takes the file: a transaction over
\* the ceiling is skipped (continue); a truthy content is saved and its
\* record appended; collect_by_type prints any other as failed,
\* collect_by_app says nothing; an exception of save_transaction is caught
\* in the loop.
transaction(responses, disk_ok) ==
    /\ ac.pc = "loop"
    /\ LET tx == Head(ac.batch)
           i == tx.id
           attempts == gateway_attempts(ArweaveGateways, responses, 1)
           content == gateway_result(attempts)
           entered == [ac EXCEPT !.tally = Count(ac.tally, i, "admitted")]
           fetched ==
               [entered EXCEPT
                   !.tally = Count(entered.tally, i, "fetched"),
                   !.last = [kind |-> "fetched", number |-> i,
                             answers |-> responses]]
       IN  IF Oversized(tx.size)
           THEN /\ ac' = NextTransaction(
                             [entered EXCEPT
                                 !.last = [NoStep EXCEPT !.kind = "skipped",
                                                         !.number = i]])
                /\ UNCHANGED disk
           ELSE IF ~Truthy(content)
           THEN /\ ac' = NextTransaction(
                             IF ac.by = "collect_by_type"
                             THEN [fetched EXCEPT
                                      !.tally = Count(fetched.tally, i,
                                                      "failed")]
                             ELSE fetched)
                /\ UNCHANGED disk
           ELSE IF ~disk_ok
           THEN /\ ac' = NextTransaction(fetched)
                /\ UNCHANGED disk
           ELSE /\ save_transaction(tx, content.content)
                /\ ac' = NextTransaction(
                       [fetched EXCEPT
                           !.tally = Count(fetched.tally, i, "recorded"),
                           !.records =
                               Append(@, save_transaction_record(
                                             tx, content.content))])
    /\ UNCHANGED mc

(***************************************************************************)
(* OrdinalsCollector.collect_by_type (data_collector.py)                   *)
(***************************************************************************)

\* limit = min(60, max_count): the page size asked of the listing.
PageLimit == 60

\* The most candidates the listing holds for OrdinalsCollector.
OrdinalsListing == 4

\* The orders in which the members of S can come.
Orders(S) ==
    {order \in [1..Cardinality(S) -> S] :
        \A i, j \in DOMAIN order : i # j => order[i] # order[j]}

OrdinalsIdle ==
    [pc |-> "idle", max_count |-> 0, remote |-> <<>>, records |-> <<>>,
     offset |-> 0]

\* collect_by_type(mime_type, max_count) is called: records = [],
\* offset = 0.
ordinals_collect_by_type(max_count, remote) ==
    /\ dc.pc = "idle"
    /\ dc' = [OrdinalsIdle EXCEPT !.pc = "loop", !.max_count = max_count,
                                  !.remote = remote]
    /\ UNCHANGED <<disk, mc, ac>>

\* The files the download threads of a page write.
RECURSIVE write_records(_, _, _)
write_records(d, list, content) ==
    IF list = <<>> THEN d
    ELSE write_records(WriteBytes(d, Head(list).local_path, content),
                       Tail(list), content)

\* One pass of the while loop: the page is listed with the limit computed
\* before the loop; an exception or an empty page leaves the loop; every
\* inscription of the page is downloaded by the thread pool, and each
\* record is appended as its download completes (`order`). The download of
\* an inscription without id raises, which future.result() hands to the
\* except branch: the loop is left with the records appended until then
\* (`done` of them), while the pool still finishes the other downloads.
ordinals_page(raises, responses, order, done) ==
    /\ dc.pc = "loop"
    /\ LET page == Page(dc.remote, dc.offset, Min(PageLimit, dc.max_count))
           downloaded ==
               {k \in DOMAIN page :
                   page[k].id # NoId /\ responses[k].kind = "ok"}
           record(k) ==
               download_inscription_record(page[k], responses[k].content)
           broken == \E k \in DOMAIN page : page[k].id = NoId
       IN  IF Len(dc.records) >= dc.max_count \/ raises \/ page = <<>>
           THEN /\ dc' = [dc EXCEPT !.pc = "returned"]
                /\ UNCHANGED disk
           ELSE /\ order \in Orders(downloaded)
                /\ done \in 0..Len(order)
                /\ ~broken => done = Len(order)
                /\ disk' = write_records(disk,
                                         [i \in DOMAIN order |-> record(order[i])],
                                         <<1>>)
                /\ dc' = [dc EXCEPT
                             !.records =
                                 @ \o [i \in 1..done |-> record(order[i])],
                             !.offset = IF broken THEN @ ELSE @ + Len(page),
                             !.pc = IF broken THEN "returned" ELSE "loop"]
    /\ UNCHANGED <<mc, ac>>

\* What a download thread receives: an exception or a payload.
DownloadAnswers == {Raised, Ok(<<1>>)}

CollectInit ==
    /\ mc = CollectorIdle
    /\ ac = CollectorIdle
    /\ dc = OrdinalsIdle

\* A run is of one collector.
CollectStep ==
    \/ /\ mc.pc = "idle" /\ ac.pc = "idle"
       /\ \/ \E max_count \in 1..MaxCount,
                remote \in UNION {[1..n -> BOOLEAN] : n \in 0..OrdinalsListing} :
                 ordinals_collect_by_type(max_count, remote)
          \/ \E raises \in BOOLEAN,
                responses \in [1..MaxCount -> DownloadAnswers],
                order \in UNION {Orders(S) : S \in SUBSET (1..MaxCount)},
                done \in 0..MaxCount :
                 ordinals_page(raises, responses, order, done)
    \/ /\ ac.pc = "idle" /\ dc.pc = "idle"
       /\ UNCHANGED dc
       /\ \/ \E count \in 1..MaxCount, remote \in RemoteListings :
                 collect(count, remote)
          \/ \E raises \in BOOLEAN : list_batch(raises)
          \/ error_sleep
          \/ \E first, second \in FetchResponses, disk_ok \in BOOLEAN :
                 download(first, second, disk_ok)
    \/ /\ mc.pc = "idle" /\ dc.pc = "idle"
       /\ UNCHANGED dc
       /\ \/ \E by \in {"collect_by_type", "collect_by_app"},
                count \in 1..MaxCount, found \in SearchResults,
                raises \in BOOLEAN :
                 collect_by_type(by, count, found, raises)
          \/ \E responses \in [DOMAIN ArweaveGateways -> GatewayAnswers],
                disk_ok \in BOOLEAN :
                 transaction(responses, disk_ok)

(***************************************************************************)
(* OvernightCollector (overnight_collect.py)                               *)
(***************************************************************************)

\* How many of the eight content types of collect_bitcoin_ordinals and of
\* the three of collect_arweave the model runs through.
BitcoinTypes == 2

ArweaveTypes == 1

\* The count asked for each content type.
TypeCount == 1

\* The most cycles of run() the model follows.
MaxCycles == 1

\* self.stats after __init__.
NoStats ==
    [bitcoin_ordinals |-> 0, arweave |-> 0, solana |-> 0, total_bytes |-> 0,
     errors |-> <<>>]

\* The state of a run: where run() stands, whether datetime.now() has
\* reached end_time, the cycle and the content type it is at, self.stats,
\* the stats file, and every record a collector call has returned to it.
OvernightIdle ==
    [pc |-> "idle", expired |-> FALSE, cycles |-> 0, type |-> 0,
     stats |-> NoStats, stats_file |-> NoFile, returned |-> <<>>]

\* return datetime.now() < self.end_time
should_continue == ~oc.expired

\* sum(r.get('content_length', 0) for r in records)
RECURSIVE total_length(_)
total_length(list) ==
    IF list = <<>> THEN 0
    ELSE Head(list).content_length + total_length(Tail(list))

\* Mutant: the counter of the chain is left as it is.
add_stats_bytes_only(stats, chain, list) ==
    [stats EXCEPT !.total_bytes = @ + total_length(list)]

\* self.stats[chain] += len(records); self.stats['total_bytes'] += sum(...)
add_stats(stats, chain, list) ==
    [stats EXCEPT ![chain] = @ + Len(list),
                  !.total_bytes = @ + total_length(list)]

\* OvernightCollector(hours).run() is called.
run ==
    /\ oc.pc = "idle"
    /\ oc' = [oc EXCEPT !.pc = "while"]
    /\ UNCHANGED <<disk, metadata, mc, ac>>

\* The wall clock reaches end_time, wherever the run stands.
deadline ==
    /\ oc.pc \notin {"idle", "done"}
    /\ ~oc.expired
    /\ oc' = [oc EXCEPT !.expired = TRUE]
    /\ UNCHANGED <<disk, metadata, mc, ac>>

\* while self.should_continue(): cycles += 1, then collect_bitcoin_ordinals;
\* save_stats after the loop.
while_test ==
    /\ oc.pc = "while"
    /\ should_continue => oc.cycles < MaxCycles
    /\ oc' = IF should_continue
             THEN [oc EXCEPT !.pc = "bitcoin", !.cycles = @ + 1, !.type = 1]
             ELSE [oc EXCEPT !.pc = "save_stats"]
    /\ UNCHANGED <<disk, metadata, mc, ac>>

\* for mime_type, count in content_types: the deadline test, then
\* collector.collect(mime_type, count) is called.
bitcoin_type(remote) ==
    /\ oc.pc = "bitcoin"
    /\ IF oc.type <= BitcoinTypes /\ should_continue
       THEN /\ collect(TypeCount, remote)
            /\ oc' = [oc EXCEPT !.pc = "bitcoin_collecting"]
       ELSE /\ oc' = [oc EXCEPT !.pc = "arweave_gate"]
            /\ UNCHANGED <<disk, mc, ac>>
    /\ UNCHANGED metadata

\* collector.collect runs: its steps are those of MultiAPICollector.collect.
bitcoin_collecting ==
    /\ oc.pc = "bitcoin_collecting"
    /\ \/ \E raises \in BOOLEAN : list_batch(raises)
       \/ error_sleep
       \/ \E first, second \in FetchResponses, disk_ok \in BOOLEAN :
              download(first, second, disk_ok)
    /\ UNCHANGED <<oc, metadata>>

\* collector.collect has returned its records: the two stats are updated
\* (and the run sleeps 10 s).
bitcoin_returned ==
    /\ oc.pc = "bitcoin_collecting"
    /\ mc.pc = "returned"
    /\ oc' = [oc EXCEPT !.pc = "bitcoin", !.type = @ + 1,
                        !.stats = add_stats(@, "bitcoin_ordinals",
                                            mc.records),
                        !.returned = @ \o mc.records]
    /\ mc' = CollectorIdle
    /\ UNCHANGED <<disk, metadata, ac>>

\* if self.should_continue(): self.collect_arweave()
arweave_gate ==
    /\ oc.pc = "arweave_gate"
    /\ oc' = [oc EXCEPT !.pc = IF should_continue THEN "arweave_entry"
                               ELSE "solana_gate"]
    /\ UNCHANGED <<disk, metadata, mc, ac>>

\* collect_arweave: if not self.should_continue(): return
arweave_entry ==
    /\ oc.pc = "arweave_entry"
    /\ oc' = IF should_continue
             THEN [oc EXCEPT !.pc = "arweave", !.type = 1]
             ELSE [oc EXCEPT !.pc = "solana_gate"]
    /\ UNCHANGED <<disk, metadata, mc, ac>>

\* for ct, count in content_types: the deadline test, then
\* collector.collect_by_type(ct, count) is called.
arweave_type(found, raises) ==
    /\ oc.pc = "arweave"
    /\ IF oc.type <= ArweaveTypes /\ should_continue
       THEN /\ collect_by_type("collect_by_type", TypeCount, found, raises)
            /\ oc' = [oc EXCEPT !.pc = "arweave_collecting"]
       ELSE /\ oc' = [oc EXCEPT !.pc = "solana_gate"]
            /\ UNCHANGED <<disk, mc, ac>>
    /\ UNCHANGED metadata

\* collector.collect_by_type runs.
arweave_collecting ==
    /\ oc.pc = "arweave_collecting"
    /\ \E responses \in [DOMAIN ArweaveGateways -> GatewayAnswers],
          disk_ok \in BOOLEAN :
           transaction(responses, disk_ok)
    /\ UNCHANGED <<oc, metadata>>

\* collector.collect_by_type has returned its records.
arweave_returned ==
    /\ oc.pc = "arweave_collecting"
    /\ ac.pc = "returned"
    /\ oc' = [oc EXCEPT !.pc = "arweave", !.type = @ + 1,
                        !.stats = add_stats(@, "arweave", ac.records),
                        !.returned = @ \o ac.records]
    /\ ac' = CollectorIdle
    /\ UNCHANGED <<disk, metadata, mc>>

\* if self.should_continue(): self.collect_solana()
solana_gate ==
    /\ oc.pc = "solana_gate"
    /\ oc' = [oc EXCEPT !.pc = IF should_continue THEN "solana_entry"
                               ELSE "pause"]
    /\ UNCHANGED <<disk, metadata, mc, ac>>

\* collect_solana: if not self.should_continue(): return
solana_entry ==
    /\ oc.pc = "solana_entry"
    /\ oc' = [oc EXCEPT !.pc = IF should_continue THEN "solana_collecting"
                               ELSE "pause"]
    /\ UNCHANGED <<disk, metadata, mc, ac>>

\* SolanaCollector.collect_popular_nfts, for the listings whose image was
\* downloaded (at most one in the model): the image is saved, and the
\* records, if there are any, are written to solana_collection.json.
collect_popular_nfts(listings, image_data) ==
    LET all_records ==
            [k \in DOMAIN listings |-> solana_record(listings[k], image_data)]
    IN  IF all_records = <<>>
        THEN UNCHANGED <<disk, metadata>>
        ELSE /\ save_nft_image(listings[1], image_data)
             /\ write_metadata(SolanaFile, all_records)

\* The listings a run of collect_popular_nfts gets images for.
PopularListings == {<<>>} \cup {<<listing>> : listing \in ScanListings}

\* collect_solana: collector.collect_popular_nfts() returns its records, or
\* raises, which the except branch adds to the errors.
collect_solana(listings, raises) ==
    /\ oc.pc = "solana_collecting"
    /\ IF raises
       THEN /\ oc' = [oc EXCEPT !.pc = "pause",
                                !.stats.errors = Append(@, "Solana")]
            /\ UNCHANGED <<disk, metadata>>
       ELSE LET all_records ==
                    [k \in DOMAIN listings |->
                        solana_record(listings[k], <<1>>)]
            IN  /\ collect_popular_nfts(listings, <<1>>)
                /\ oc' = [oc EXCEPT !.pc = "pause",
                                    !.stats = add_stats(@, "solana",
                                                        all_records),
                                    !.returned = @ \o all_records]
    /\ UNCHANGED <<mc, ac>>

\* if self.should_continue(): time.sleep(60), and back to the while test.
pause ==
    /\ oc.pc = "pause"
    /\ oc' = [oc EXCEPT !.pc = "while"]
    /\ UNCHANGED <<disk, metadata, mc, ac>>

\* save_stats: total_items is added and the stats are written to their own
\* overnight_stats_<time>.json file.
save_stats ==
    /\ oc.pc = "save_stats"
    /\ oc' = [oc EXCEPT
                 !.pc = "done",
                 !.stats_file =
                     [exists |-> TRUE,
                      data |-> [bitcoin_ordinals |-> oc.stats.bitcoin_ordinals,
                                arweave |-> oc.stats.arweave,
                                solana |-> oc.stats.solana,
                                total_bytes |-> oc.stats.total_bytes,
                                errors |-> oc.stats.errors,
                                total_items |-> oc.stats.bitcoin_ordinals
                                                + oc.stats.arweave
                                                + oc.stats.solana]]]
    /\ UNCHANGED <<disk, metadata, mc, ac>>

OvernightInit == oc = OvernightIdle

OvernightStep ==
    \/ run
    \/ deadline
    \/ while_test
    \/ \E remote \in RemoteListings : bitcoin_type(remote)
    \/ bitcoin_collecting
    \/ bitcoin_returned
    \/ arweave_gate
    \/ arweave_entry
    \/ \E found \in SearchResults, raises \in BOOLEAN :
           arweave_type(found, raises)
    \/ arweave_collecting
    \/ arweave_returned
    \/ solana_gate
    \/ solana_entry
    \/ \E listings \in PopularListings, raises \in BOOLEAN :
           collect_solana(listings, raises)
    \/ pause
    \/ save_stats

(***************************************************************************)
(* The collectors run as scripts: main() of robust_collector.py and        *)
(* SolanaCollector.collect_popular_nfts                                    *)
(***************************************************************************)

\* How many of the five targets of main() the model runs through.
MainTargets == 2

\* The most script runs the model follows.
MaxMains == 2

RobustFile == "robust_collection.json"

\* The state of the scripts: where main() stands, the target it is at, its
\* all_records, the runs started so far, and (kept by the model only) the
\* metadata entries that were persisted when the current run started.
MainIdle ==
    [pc |-> "idle", target |-> 0, all_records |-> <<>>, runs |-> 0,
     before |-> {}]

\* The entries of the metadata files.
Persisted ==
    UNION {{metadata[f].data[k] : k \in DOMAIN metadata[f].data} :
              f \in MetadataFiles}

\* python robust_collector.py: collector = MultiAPICollector(),
\* all_records = [].
main ==
    /\ mn.pc \in {"idle", "done"}
    /\ mn.runs < MaxMains
    /\ mn' = [mn EXCEPT !.pc = "targets", !.target = 1,
                        !.all_records = <<>>, !.runs = @ + 1,
                        !.before = Persisted]
    /\ UNCHANGED <<disk, metadata, mc, ac>>

\* for mime_type, count in targets: collector.collect(mime_type, count) is
\* called; after the last target the records are written to
\* robust_collection.json.
main_target(remote) ==
    /\ mn.pc = "targets"
    /\ IF mn.target <= MainTargets
       THEN /\ collect(TypeCount, remote)
            /\ mn' = [mn EXCEPT !.pc = "collecting"]
            /\ UNCHANGED metadata
       ELSE /\ write_metadata(RobustFile, mn.all_records)
            /\ mn' = [mn EXCEPT !.pc = "done"]
            /\ UNCHANGED <<disk, mc, ac>>

\* collector.collect runs.
main_collecting ==
    /\ mn.pc = "collecting"
    /\ \/ \E raises \in BOOLEAN : list_batch(raises)
       \/ error_sleep
       \/ \E first, second \in FetchResponses, disk_ok \in BOOLEAN :
              download(first, second, disk_ok)
    /\ UNCHANGED <<mn, metadata>>

\* all_records.extend(records), and the pause between types.
main_returned ==
    /\ mn.pc = "collecting"
    /\ mc.pc = "returned"
    /\ mn' = [mn EXCEPT !.pc = "targets", !.target = @ + 1,
                        !.all_records = @ \o mc.records]
    /\ mc' = CollectorIdle
    /\ UNCHANGED <<disk, metadata, ac>>

\* python solana_collector.py: main() calls collect_popular_nfts.
solana_main(listings, image_data) ==
    /\ mn.pc \in {"idle", "done"}
    /\ mn.runs < MaxMains
    /\ collect_popular_nfts(listings, image_data)
    /\ mn' = [mn EXCEPT !.pc = "done", !.runs = @ + 1, !.before = Persisted]
    /\ UNCHANGED <<mc, ac>>

MainInit == mn = MainIdle

MainStep ==
    \/ main
    \/ \E remote \in RemoteListings : main_target(remote)
    \/ main_collecting
    \/ main_returned
    \/ \E listings \in PopularListings, image_data \in Contents :
           solana_main(listings, image_data)

(***************************************************************************)
(* Specifications                                                          *)
(***************************************************************************)

Init ==
    /\ StoreInit
    /\ UnifyInit
    /\ LimiterInit
    /\ WorkersInit
    /\ FetchInit
    /\ CollectInit
    /\ OvernightInit
    /\ MainInit

SpecStore ==
    Init /\ [][StoreStep /\ UNCHANGED <<unifyVars, limiterVars, workerVars,
                                        fetchVars, collectVars, runVars>>]_vars

SpecUnify ==
    Init /\ [][UnifyStep /\ UNCHANGED <<limiterVars, workerVars,
                                        fetchVars, collectVars, runVars>>]_vars

SpecLimiter ==
    Init /\ [][LimiterStep /\ UNCHANGED <<storeVars, unifyVars, workerVars,
                                          fetchVars, collectVars, runVars>>]_vars

SpecWorkers ==
    Init /\ [][WorkersStep /\ UNCHANGED <<storeVars, unifyVars,
                                          fetchVars, collectVars, runVars>>]_vars

SpecFetch ==
    Init /\ [][FetchStep /\ UNCHANGED <<storeVars, unifyVars,
                                        workerVars, collectVars, runVars>>]_vars

CollectNext ==
    CollectStep /\ UNCHANGED <<collected, unifyVars, limiterVars,
                               workerVars, fetchVars, runVars>>

SpecCollect == Init /\ [][CollectNext]_vars

\* The collector keeps running: a step it can take is taken. What the remote
\* side answers is not constrained.
SpecCollectFair == SpecCollect /\ WF_vars(CollectNext)

OvernightNext ==
    OvernightStep /\ UNCHANGED <<collected, records, gpc, runs, exported,
                                 limiterVars, workerVars, fetchVars, dc, mn>>

SpecOvernight == Init /\ [][OvernightNext]_vars

\* The run keeps running: a step it can take is taken. What the remote side
\* answers, and when the deadline passes, is not constrained.
SpecOvernightFair == SpecOvernight /\ WF_vars(OvernightNext)

MainNext ==
    MainStep /\ UNCHANGED <<collected, records, gpc, runs, exported,
                            limiterVars, workerVars, fetchVars, dc, oc>>

SpecMain == Init /\ [][MainNext]_vars


(***************************************************************************)
(* Claims about the unified dataset generator                              *)
(***************************************************************************)

\* C1, as claimed: after deduplicate(), and so in what run() exports, no two
\* records have the same content_hash, whichever chains they came from.
C1_DigestUniqueAcrossChains ==
    /\ gpc \in {"export", "done"} =>
          \A i, j \in DOMAIN records :
              i # j => records[i].content_hash # records[j].content_hash
    /\ \A i, j \in DOMAIN exported.records :
          i # j => exported.records[i].content_hash
                       # exported.records[j].content_hash

\* The positions of `list` that hold the first record of their dedup key.
FirstSeen(list) ==
    {i \in DOMAIN list :
        \A j \in DOMAIN list : j < i => DedupKey(list[j]) # DedupKey(list[i])}

\* `new` is `old` cut down to its first-seen positions: same records, with
\* all their fields, in the same order.
KeepsFirstSeen(old, new) ==
    /\ Len(new) = Cardinality(FirstSeen(old))
    /\ \A i \in FirstSeen(old) :
          new[Cardinality({j \in FirstSeen(old) : j <= i})] = old[i]

\* C2: deduplicate() keeps, for every dedup key, the record that comes
\* first in load order, unchanged, drops every later one, and leaves the
\* kept records in their order.
C2_FirstSeenWins ==
    [][gpc = "deduplicate" => KeepsFirstSeen(records, records')]_vars

\* C2's case: a metadata file holds two entries of the same content with
\* different ids; after deduplicate() the first is there and the second is not.
C2_Witness ==
    /\ gpc = "export"
    /\ \E k \in DOMAIN BitcoinFiles :
          LET data == metadata[BitcoinFiles[k]].data
          IN  /\ Len(data) >= 2
              /\ data[1].file_hash = data[2].file_hash
              /\ data[1].id # data[2].id
              /\ \E i \in DOMAIN records :
                    records[i] = UnifiedRecord("bitcoin", data[1])
              /\ \A i \in DOMAIN records :
                    records[i] # UnifiedRecord("bitcoin", data[2])

\* The entries of the Bitcoin metadata files that exist.
BitcoinEntries ==
    UNION {{metadata[BitcoinFiles[k]].data[i] :
                i \in DOMAIN metadata[BitcoinFiles[k]].data} :
           k \in {n \in DOMAIN BitcoinFiles : metadata[BitcoinFiles[n]].exists}}

\* C3: ingesting an entry again is idempotent. After load + deduplicate an
\* entry, however many metadata files hold it, is in the records exactly
\* once; deduplicate() applied again changes nothing; and load +
\* deduplicate run a second time on the same generator give the list, and so
\* the count, of the first time (the one the first run exported).
C3_ReingestIdempotent ==
    gpc = "export" =>
        /\ \A item \in BitcoinEntries :
              Cardinality({i \in DOMAIN records :
                  DedupKey(records[i]) = <<"bitcoin", item.file_hash>>}) = 1
        /\ deduplicate_list(records) = records
        /\ runs > 1 => records = exported.records

\* C3's case: the same entry lies in two metadata files, and load +
\* deduplicate have run a second time on the same generator.
C3_Witness ==
    /\ gpc = "export"
    /\ runs = 2
    /\ \E k, n \in DOMAIN BitcoinFiles :
          /\ k < n
          /\ Len(metadata[BitcoinFiles[k]].data) >= 1
          /\ Len(metadata[BitcoinFiles[n]].data) >= 1
          /\ metadata[BitcoinFiles[k]].data[1] = metadata[BitcoinFiles[n]].data[1]
    /\ Len(records) = 1

(***************************************************************************)
(* Claims about the content store                                          *)
(***************************************************************************)

\* C4, as claimed: when the same bytes of the same item are stored twice,
\* both stores return the same file_hash and local_path and the destination
\* file is written once.
C4_SecondStoreWritesNothing ==
    \A i, j \in DOMAIN collected :
        (i < j /\ collected[i] = collected[j]) =>
            /\ collected[i].file_hash = collected[j].file_hash
            /\ collected[i].local_path = collected[j].local_path
            /\ disk[collected[i].local_path].writes = 1

\* C5, as claimed: one file per content digest. Two files of one directory
\* and extension never hold the same bytes, and a later store of the same
\* bytes returns the path written first.
C5_OneFilePerDigest ==
    /\ \A p, q \in DOMAIN disk :
          (/\ Hash16(disk[p].content) = Hash16(disk[q].content)
           /\ p.root = q.root
           /\ p.category = q.category
           /\ p.ext = q.ext) => p = q
    /\ \A i, j \in DOMAIN collected :
          (/\ collected[i].file_hash = collected[j].file_hash
           /\ collected[i].local_path.root = collected[j].local_path.root
           /\ collected[i].local_path.category = collected[j].local_path.category
           /\ collected[i].local_path.ext = collected[j].local_path.ext)
              => collected[i].local_path = collected[j].local_path


(***************************************************************************)
(* Claims about the rate limiter                                           *)
(***************************************************************************)

\* rate_limit + 1 calls for an API, the i-th and those after it, are issued
\* back to back at one instant: each is issued as the one before returns,
\* and no time passes in a call but the sleep it asks for. The limiter is
\* fresh, or has been idle for more than the window.
Burst(api_name, i) ==
    LET log == admissions[api_name]
    IN  /\ i >= 1
        /\ Len(log) >= i + rate_limit(api_name)
        /\ \A k \in i..(i + rate_limit(api_name)) :
              log[k].admitted = log[k].arrived + log[k].slept
        /\ \A k \in i..(i + rate_limit(api_name) - 1) :
              log[k + 1].arrived = log[k].admitted
        /\ i > 1 => log[i].arrived - log[i - 1].admitted > Window

\* C6: when rate_limit + 1 calls for an API are issued back to back at one
\* instant (the limiter fresh, or idle for more than 60 seconds before), the
\* first rate_limit of them are let through without waiting, and the last
\* one not before the 60 second window has passed since the last call let
\* through before it.
C6_BurstBoundary ==
    \A api_name \in ApiNames :
        \A i \in DOMAIN admissions[api_name] :
            Burst(api_name, i) =>
                LET log == admissions[api_name]
                    N == rate_limit(api_name)
                IN  /\ \A k \in i..(i + N - 1) :
                          /\ log[k].slept = 0
                          /\ log[k].admitted = log[k].arrived
                    /\ log[i + N].slept > 0
                    /\ log[i + N].admitted >= log[i + N - 1].admitted + Window

\* C6's case: after an earlier call and an idle gap, a burst of
\* rate_limit + 1 calls on hiro, the last of which was let through after
\* sleeping for the window.
C6_Witness ==
    /\ Burst("hiro", 2)
    /\ admissions["hiro"][2 + HiroLimit].slept = Window

\* The calls let through for an API in the 60 seconds that end at `t`:
\* the interval (t - 60, t].
AdmittedInWindow(api_name, t) ==
    {k \in DOMAIN admissions[api_name] :
        /\ admissions[api_name][k].admitted > t - Window
        /\ admissions[api_name][k].admitted <= t}

\* C7: for calls of one caller at arbitrary times, the calls let through for
\* one API inside any sliding interval of 60 seconds (a half-open interval:
\* a call let through exactly 60 seconds after another is outside the
\* other's window) never exceed the API's rate_limit.
C7_RollingWindowLimit ==
    \A api_name \in ApiNames :
        \A k \in DOMAIN admissions[api_name] :
            Cardinality(AdmittedInWindow(api_name,
                            admissions[api_name][k].admitted))
                <= rate_limit(api_name)

\* C7's case: calls at different times fill a 60 second window up to the
\* API's rate_limit, one of them after sleeping for a part of the window.
C7_Witness ==
    \E k, j \in DOMAIN admissions["hiro"] :
        /\ Cardinality(AdmittedInWindow("hiro", admissions["hiro"][k].admitted))
               = HiroLimit
        /\ admissions["hiro"][j].slept > 0
        /\ admissions["hiro"][j].slept < Window
        /\ admissions["hiro"][1].arrived < admissions["hiro"][2].arrived

\* Both threads have returned from calls they entered while one slot was
\* left, the window still open for both.
BothCalledWithOneSlotLeft ==
    \A w \in Workers :
        /\ workers[w].pc = "done"
        /\ workers[w].entry_calls = HiroLimit - 1
        /\ ~workers[w].idled

\* C8: when two threads call _wait_for_rate_limit for one API while exactly
\* one slot is left (calls_this_minute = rate_limit - 1), they are not both
\* let through without waiting, and neither increment of calls_this_minute
\* is lost, however the two calls interleave.
C8_MutualExclusion ==
    BothCalledWithOneSlotLeft =>
        /\ \E w \in Workers : workers[w].waited
        /\ \A w \in Workers : ~workers[w].clobbered

(***************************************************************************)
(* Claims about requests and fallback                                      *)
(***************************************************************************)

\* The requests up to the k-th that go to the same source from the same
\* collector as the k-th.
RequestsLike(k) ==
    {j \in 1..k : /\ requests[j].source = requests[k].source
                  /\ requests[j].collector = requests[k].collector}

\* The k-th request was preceded by an admission of its own.
Admitted(k) == requests[k].admissions_seen >= Cardinality(RequestsLike(k))

\* C9 as stated: every request, a listing or a content fetch, to every
\* endpoint, the ordinals.com mirror and the downloads of OrdinalsCollector
\* included, is preceded by a rate limiter admission for its source.
C9_EveryRequestAdmitted == \A k \in DOMAIN requests : Admitted(k)

\* The requests the limiter guards: those of MultiAPICollector to an API
\* named in apis.
Guarded(k) ==
    /\ requests[k].collector = "MultiAPICollector"
    /\ requests[k].source \in ApiNames

\* C9, amended: every request MultiAPICollector issues to the Hiro or the
\* Ordiscan API, listing or content, is preceded by a rate limiter admission
\* for that API; its requests to ordinals.com and the requests of
\* OrdinalsCollector are issued with no admission.
C9_ApiRequestsAdmitted ==
    \A k \in DOMAIN requests :
        IF Guarded(k) THEN Admitted(k) ELSE requests[k].admissions_seen = 0

\* C9's case: a fetch_with_fallback that went to ordinals.com with no
\* admission and then to Hiro after one, following a listing request.
C9_Witness ==
    /\ Len(requests) = 3
    /\ requests[1].method = "fetch_inscriptions_hiro"
    /\ requests[2].method = "fetch_content_ordinals_com"
    /\ requests[2].admissions_seen = 0
    /\ requests[3].method = "fetch_content_hiro"
    /\ requests[3].admissions_seen = 2
    /\ Len(admissions["hiro"]) = 2

\* The endpoints a fetch function tries, in declared order.
Declared(by) ==
    CASE by = "fetch_with_fallback" -> FallbackEndpoints
      [] by = "fetch_content" -> ArweaveGateways
      [] by = "get_content" -> IPFSGateways

\* An endpoint errored: an exception or a status other than 200.
Errored(response) == response.kind # "ok"

\* An endpoint succeeded: status 200 and a payload that is not empty.
Succeeded(response) == response.kind = "ok" /\ response.content # EmptyBytes

\* C10: the endpoints of a fetch are attempted in declared order; endpoint
\* k+1 is attempted only after endpoints 1..k failed (errored or gave an
\* empty payload), and none is attempted after one succeeded, whose payload
\* is the result; an endpoint that errors is followed by the next one, so
\* with [A, B], A erroring and B succeeding, the fetch tries A first and
\* resolves through B.
C10_FallbackOrdering ==
    last_fetch.by # "none" =>
        LET declared == Declared(last_fetch.by)
            tried == last_fetch.attempts
        IN  /\ Len(tried) >= 1
            /\ Len(tried) <= Len(declared)
            /\ \A k \in DOMAIN tried :
                  /\ tried[k].endpoint = declared[k]
                  /\ k < Len(tried) => ~Succeeded(tried[k].response)
                  /\ Succeeded(tried[k].response) =>
                        /\ k = Len(tried)
                        /\ last_fetch.result = Bytes(tried[k].response.content)
                  /\ Errored(tried[k].response) /\ k < Len(declared) =>
                        Len(tried) > k

\* C10's case: ordinals.com raised and Hiro answered with a payload, which
\* fetch_with_fallback returned.
C10_Witness ==
    /\ last_fetch.by = "fetch_with_fallback"
    /\ last_fetch.attempts = <<Attempt("ordinals.com", Raised),
                               Attempt("hiro", Ok(<<1>>))>>
    /\ last_fetch.result = Bytes(<<1>>)
    /\ requests[Len(requests)].method = "fetch_content_hiro"

\* The endpoints of the last fetch that answer 200 with a payload that is
\* not empty.
NonEmptyAnswers ==
    {k \in DOMAIN last_fetch.answers : Succeeded(last_fetch.answers[k])}

\* C11: only a 200 answer with a payload that is not empty wins the
\* fallback: after a 200 answer with an empty body the next endpoint is
\* still attempted, the fetch gives the first non-empty payload among its
\* endpoints, and it gives nothing truthy only when no endpoint has one.
C11_NonEmptyPayloadWins ==
    last_fetch.by # "none" =>
        /\ \A k \in DOMAIN last_fetch.attempts :
              /\ last_fetch.attempts[k].response = Ok(EmptyBytes)
              /\ k < Len(Declared(last_fetch.by))
              => Len(last_fetch.attempts) > k
        /\ IF NonEmptyAnswers = {}
           THEN ~Truthy(last_fetch.result)
           ELSE LET first == CHOOSE k \in NonEmptyAnswers :
                                 \A j \in NonEmptyAnswers : k <= j
                IN  last_fetch.result
                        = Bytes(last_fetch.answers[first].content)

(***************************************************************************)
(* Claims about the collection loops                                       *)
(***************************************************************************)

\* No endpoint answered 200 with a payload that is not empty.
AllFailed(answers) == \A k \in DOMAIN answers : ~Succeeded(answers[k])

\* The step fetched the head of the list of collector c (c before, d after)
\* and every endpoint failed.
FetchedInVain(c, d, pc) ==
    /\ c.pc = pc
    /\ d # c
    /\ d.last.kind = "fetched"
    /\ AllFailed(d.last.answers)

\* C12: when every endpoint fails for an item, the item yields no bytes: no
\* file is written and no record is appended for it, and the loop goes on
\* with the next item of the batch (collect prints the item as failed).
C12_AllFailNotFatal ==
    [][/\ FetchedInVain(mc, mc', "batch") =>
             /\ disk' = disk
             /\ mc'.records = mc.records
             /\ mc'.tally[mc'.last.number].failed
                    = Min(mc.tally[mc'.last.number].failed + 1, MaxTally)
             /\ IF Len(mc.batch) > 1
                THEN mc'.pc = "batch" /\ mc'.batch = Tail(mc.batch)
                ELSE mc'.pc = "loop" /\ mc'.offset = mc.offset + mc.listed
       /\ FetchedInVain(ac, ac', "loop") =>
             /\ disk' = disk
             /\ ac'.records = ac.records
             /\ IF Len(ac.batch) > 1
                THEN ac'.pc = "loop" /\ ac'.batch = Tail(ac.batch)
                ELSE ac'.pc = "returned"
      ]_vars

\* C12's case: the first item of a batch failed on both endpoints, nothing
\* was written for it, and the second item was fetched and recorded.
C12_Witness ==
    /\ mc.tally[1].failed = 1
    /\ mc.tally[1].recorded = 0
    /\ mc.tally[2].recorded = 1
    /\ mc.last.kind = "fetched"
    /\ mc.last.number = 2
    /\ Len(mc.records) = 1
    /\ Cardinality(DOMAIN disk) = 1

\* C13: the collection of one content type always terminates: once called,
\* collect leaves its loop, whatever the remote side does, a listing call
\* that raises on every attempt included.
C13_CollectTerminates == [](mc.pc = "loop" => <>(mc.pc = "returned"))

\* C14: in collect_by_type and collect_by_app a transaction whose declared
\* size is over the ceiling is skipped before any fetch: no gateway request
\* is made for it, no file is written, no record is produced; a transaction
\* at or below the ceiling, or with no declared size, is fetched.
C14_OversizedSkipped ==
    [][ac.pc = "loop" /\ ac' # ac =>
           LET tx == Head(ac.batch)
           IN  IF tx.size # NoSize /\ tx.size > SizeCeiling
               THEN /\ ac'.last.kind = "skipped"
                    /\ ac'.tally[tx.id].fetched = ac.tally[tx.id].fetched
                    /\ ac'.records = ac.records
                    /\ disk' = disk
               ELSE /\ ac'.last.kind = "fetched"
                    /\ ac'.last.number = tx.id
                    /\ ac'.tally[tx.id].fetched
                           = Min(ac.tally[tx.id].fetched + 1, MaxTally)
      ]_vars

\* C14's case: the first transaction, one byte over the ceiling, was skipped
\* without a fetch; the second, exactly at the ceiling, was fetched and
\* recorded.
C14_Witness ==
    /\ Len(ac.remote) = 2
    /\ ac.remote[1] = SizeCeiling + 1
    /\ ac.tally[1] = [NoTally EXCEPT !.admitted = 1]
    /\ ac.remote[2] = SizeCeiling
    /\ ac.tally[2].fetched = 1
    /\ ac.tally[2].recorded = 1
    /\ Len(ac.records) = 1
    /\ Cardinality(DOMAIN disk) = 1

\* The outcomes candidate i has had so far: records appended and failures
\* reported.
Outcomes(i) == mc.tally[i].recorded + mc.tally[i].failed

\* C16, as claimed: every item that MultiAPICollector.collect entered into
\* its download loop has exactly one outcome when collect returns, a record
\* or a reported failure, and never has more than one, also when an item of
\* its batch raised and the batch was listed again from the same offset.
C16_ExactlyOneOutcome ==
    mc.by = "collect" =>
        \A i \in DOMAIN mc.tally :
            /\ Outcomes(i) <= 1
            /\ (mc.pc = "returned" /\ mc.tally[i].admitted > 0)
                   => Outcomes(i) = 1

\* A pass of the download loop that ended in an exception.
DownloadRaised == mc.pc = "batch" /\ mc'.pc = "error_sleep"

\* C17, as claimed: a pass of the download loop that raises (an item without
\* id, a storage error of save_inscription) reports that item as failed and
\* goes on with the remaining items of the batch.
C17_FailureConfined ==
    [][DownloadRaised =>
          LET i == Head(mc.batch).number
          IN  /\ mc'.tally[i].failed = Min(mc.tally[i].failed + 1, MaxTally)
              /\ mc'.batch = Tail(mc.batch)]_vars

(***************************************************************************)
(* Claims about the overnight run                                          *)
(***************************************************************************)

\* A collector of the overnight run starts the content fetch of an item.
FetchStarts ==
    \/ oc.pc = "bitcoin_collecting" /\ mc.pc = "batch" /\ mc' # mc
          /\ mc'.last.kind = "fetched"
    \/ oc.pc = "arweave_collecting" /\ ac.pc = "loop" /\ ac' # ac
          /\ ac'.last.kind = "fetched"

\* C15, as claimed: once end_time has passed no new item is admitted for
\* fetching: every content fetch of an overnight run starts before the
\* deadline.
C15_NoFetchAfterDeadline == [][FetchStarts => ~oc.expired]_vars

\* C18, as claimed: when the overnight run has ended, every record that a
\* collector call returned to it is in the persisted metadata.
C18_ProgressFlushed ==
    oc.pc = "done" =>
        \A k \in DOMAIN oc.returned : oc.returned[k] \in Persisted

(***************************************************************************)
(* Claims about the persisted metadata                                     *)
(***************************************************************************)

\* C19, as claimed: the persisted record set is augmented, never replaced:
\* every metadata entry that was persisted when a run of a collector script
\* started is still persisted when that run has finished.
C19_PersistedAugmented == mn.pc = "done" => mn.before \subseteq Persisted

(***************************************************************************)
(* Claims about merging the output of several collection runs              *)
(***************************************************************************)

\* The content hashes of the candidates the generator is given: the entries
\* of the metadata files that exist and, for a chain without metadata file,
\* the stored images the directory scan finds.
CandidateHashes ==
    {item.file_hash : item \in Persisted}
    \cup (IF metadata[ArweaveFile].exists THEN {}
          ELSE {Hash16(disk[path].content) :
                   path \in ScannedFiles("arweave",
                                {".png", ".gif", ".jpg", ".webp", ".svg"})})
    \cup (IF metadata[SolanaFile].exists THEN {}
          ELSE {Hash16(disk[path].content) :
                   path \in ScannedFiles("solana",
                                {".png", ".gif", ".jpg", ".webp"})})

ContentHashes(list) == {list[i].content_hash : i \in DOMAIN list}

\* The chains whose records are loaded from metadata files.
MetadataChains ==
    {"bitcoin"} \cup (IF metadata[ArweaveFile].exists THEN {"arweave"} ELSE {})
                \cup (IF metadata[SolanaFile].exists THEN {"solana"} ELSE {})

\* Every record of `list` that was loaded from a metadata file is in `other`.
RecordsWithin(list, other) ==
    \A i \in DOMAIN list :
        list[i].chain \in MetadataChains =>
            \E j \in DOMAIN other :
                list[i].chain = other[j].chain /\ list[i] = other[j]

\* C20: after load + deduplicate over metadata files that share items, the
\* content hashes of the records are those of the union of the candidates,
\* each candidate's hash being there whichever files hold it; and a
\* unification that runs again on the unchanged inputs ends with the content
\* hashes, and with the set of records loaded from metadata files, of the
\* run before (the one that run exported).
C20_MergeIdempotent ==
    gpc = "export" =>
        /\ ContentHashes(records) = CandidateHashes
        /\ exported.written =>
              /\ ContentHashes(records) = ContentHashes(exported.records)
              /\ RecordsWithin(records, exported.records)
              /\ RecordsWithin(exported.records, records)

\* C20's case: two metadata files hold the same content, and the
\* unification has run before on these inputs with a generator of its own.
C20_Witness ==
    /\ gpc = "export"
    /\ exported.written
    /\ \E k, n \in DOMAIN BitcoinFiles :
          /\ k < n
          /\ metadata[BitcoinFiles[k]].exists
          /\ metadata[BitcoinFiles[n]].exists
          /\ \E i \in DOMAIN metadata[BitcoinFiles[k]].data,
                j \in DOMAIN metadata[BitcoinFiles[n]].data :
                metadata[BitcoinFiles[k]].data[i].file_hash
                    = metadata[BitcoinFiles[n]].data[j].file_hash
    /\ runs = 1
    /\ Len(records) = 1

(***************************************************************************)
(* Claims about retries                                                    *)
(***************************************************************************)

\* A failure that may not happen again: the request raised (timeout,
\* connection reset).
Transient(response) == response.kind = "exception"

\* The attempts the last fetch made on an endpoint.
AttemptsOn(endpoint) ==
    {k \in DOMAIN last_fetch.attempts :
        last_fetch.attempts[k].endpoint = endpoint}

\* C21, as claimed: in fetch_with_fallback an endpoint whose request failed
\* with a transient failure is tried again before the fetch goes on to the
\* next endpoint.
C21_TransientRetried ==
    last_fetch.by = "fetch_with_fallback" =>
        \A k \in DOMAIN last_fetch.attempts :
            Transient(last_fetch.attempts[k].response) =>
                /\ Cardinality(AttemptsOn(last_fetch.attempts[k].endpoint)) >= 2
                /\ k + 1 \in AttemptsOn(last_fetch.attempts[k].endpoint)

(***************************************************************************)
(* Claims about failing writes                                             *)
(***************************************************************************)

\* C22, as claimed: a file that is visible under its final path holds the
\* complete bytes whose digest is in its name, also after a write that
\* failed part-way.
C22_NoPartialFile ==
    \A path \in DOMAIN disk : Hash16(disk[path].content) = path.hash

(***************************************************************************)
(* Claims about a failing source                                           *)
(***************************************************************************)

\* C23, as claimed: a listing error for one content type does not hold the
\* run: the overnight run that is collecting a Bitcoin content type gets to
\* the next content type or chain.
C23_RunProceeds ==
    [](oc.pc = "bitcoin_collecting" => <>(oc.pc # "bitcoin_collecting"))

(***************************************************************************)
(* Claims about the storage category                                       *)
(***************************************************************************)

\* The stored record is that of an item without content type, as
\* MultiAPICollector.save_inscription, OrdinalsCollector.download_inscription
\* or ArweaveCollector.save_transaction builds it.
StoredWithoutContentType(record) ==
    \/ /\ record.local_path.root = "ordinals"
       /\ \E inscription \in Inscriptions, content \in Contents :
             /\ inscription.content_type = Missing
             /\ record = save_inscription_record(inscription, content)
    \/ /\ record.local_path.root = "home_ordinals"
       /\ \E inscription \in Inscriptions, content \in Contents \cup {EmptyBytes} :
             /\ inscription.content_type = Missing
             /\ record = download_inscription_record(inscription, content)
    \/ /\ record.local_path.root = "arweave"
       /\ \E tx \in Transactions, content \in Contents :
             /\ tx.tag_type = Missing
             /\ tx.data_type = Missing
             /\ record = save_transaction_record(tx, content)

\* C24, as claimed: every stored item lies under the category that is the
\* token before '/' of its content type, 'other' for a content type without
\* '/', and an item without content type lies under 'other', in every save
\* path.
C24_CategoryDerivation ==
    \A k \in DOMAIN collected :
        /\ collected[k].local_path.root \in {"ordinals", "home_ordinals",
                                             "arweave"}
              => collected[k].local_path.category
                     = Category(collected[k].content_type)
        /\ StoredWithoutContentType(collected[k])
              => collected[k].local_path.category = "other"

(***************************************************************************)
(* Claims about the unified id                                             *)
(***************************************************************************)

\* C25, as claimed: unified records with different (chain, chain_id) pairs
\* have different ids. (Stated for the records loaded from metadata files.)
C25_IdFromChainAndItem ==
    \A i, j \in DOMAIN records :
        (/\ records[i].chain \in MetadataChains
         /\ records[j].chain \in MetadataChains
         /\ \/ records[i].chain # records[j].chain
            \/ records[i].chain_id # records[j].chain_id)
            => records[i].id # records[j].id

(***************************************************************************)
(* Claims about the target count                                           *)
(***************************************************************************)

\* C26, as claimed: MultiAPICollector.collect, OrdinalsCollector
\* .collect_by_type and ArweaveCollector.collect_by_type never hold more
\* records than the target they were called with.
C26_TargetIsUpperBound ==
    /\ Len(mc.records) <= mc.count
    /\ Len(dc.records) <= dc.max_count
    /\ Len(ac.records) <= ac.count

\* C27, as claimed: when ArweaveCollector.collect_by_type / collect_by_app
\* returns fewer records than its target, every transaction the search
\* returned has been through the loop (attempted, or skipped as oversized).
C27_ShortOnlyWhenExhausted ==
    (ac.pc = "returned" /\ Len(ac.records) < ac.count) =>
        \A i \in DOMAIN ac.remote : ac.tally[i].admitted > 0

(***************************************************************************)
(* Claims about the limiter state                                          *)
(***************************************************************************)

\* The step is an admission through _wait_for_rate_limit(api_name).
AdmissionOn(api_name) == admissions'[api_name] # admissions[api_name]

\* C28: an admission for one API changes the counter and last_call of that
\* API only, and whether it sleeps follows from that API's own state: a
\* call for an API that is below its own limit is never made to wait,
\* however exhausted the other APIs are.
C28_IndependentLimiters ==
    [][\A a \in ApiNames :
          AdmissionOn(a) =>
              /\ \A b \in ApiNames \ {a} :
                    apis'[b] = apis[b] /\ admissions'[b] = admissions[b]
              /\ ~AtLimit(a, CallsAfterIdleTest(apis[a], clock))
                    => admissions'[a][Len(admissions'[a])].slept = 0]_vars

\* C28's case: Hiro's budget is used up within the minute, and a call for
\* Ordiscan that arrives then is let through without sleeping.
C28_Witness ==
    /\ apis["hiro"].calls_this_minute = HiroLimit
    /\ admissions["ordiscan"] # <<>>
    /\ LET last == admissions["ordiscan"][Len(admissions["ordiscan"])]
       IN  /\ last.arrived >= apis["hiro"].last_call
           /\ last.arrived - apis["hiro"].last_call < Window
           /\ last.slept = 0
           /\ Len(admissions["hiro"]) >= HiroLimit

\* C29, as claimed: after every admission the API's calls_this_minute is
\* between 1 and its rate_limit.
C29_CounterWithinLimit ==
    \A a \in ApiNames :
        admissions[a] # <<>> =>
            /\ apis[a].calls_this_minute >= 1
            /\ apis[a].calls_this_minute <= rate_limit(a)

(***************************************************************************)
(* Claims about the end of the overnight run                               *)
(***************************************************************************)

\* A collector call of the run is under way.
Collecting ==
    oc.pc \in {"bitcoin_collecting", "arweave_collecting", "solana_collecting"}

\* How many of the records returned to the run are of a chain (the records
\* of MultiAPICollector carry no chain).
ReturnedOf(chain) ==
    Cardinality({k \in DOMAIN oc.returned :
        IF "chain" \in DOMAIN oc.returned[k]
        THEN oc.returned[k].chain = chain
        ELSE chain = "bitcoin"})

\* The counters of the run are the numbers of records its collector calls
\* returned, and the saved stats hold them with their sum.
StatsAreReturned ==
    /\ oc.stats.bitcoin_ordinals = ReturnedOf("bitcoin")
    /\ oc.stats.arweave = ReturnedOf("arweave")
    /\ oc.stats.solana = ReturnedOf("solana")
    /\ oc.pc = "done" =>
          /\ oc.stats_file.exists
          /\ oc.stats_file.data.bitcoin_ordinals = ReturnedOf("bitcoin")
          /\ oc.stats_file.data.arweave = ReturnedOf("arweave")
          /\ oc.stats_file.data.solana = ReturnedOf("solana")
          /\ oc.stats_file.data.total_items = Len(oc.returned)
    /\ oc.stats_file.exists => oc.pc = "done"

\* After the deadline no cycle and no collector call is started, and the
\* stats file is written once.
NothingNewAfterDeadline ==
    /\ oc'.cycles # oc.cycles => ~oc.expired
    /\ (~Collecting /\ Collecting') => ~oc.expired
    /\ oc'.stats_file # oc.stats_file => ~oc.stats_file.exists

\* C30: OvernightCollector.run starts no cycle and no collector call after
\* the deadline; once the deadline has passed and no collector call is
\* under way it gets to save_stats, which it calls once; its counters are
\* the numbers of records the collector calls of each chain returned, and
\* total_items in the saved stats is their sum.
C30_RunEndsWithStats ==
    /\ []StatsAreReturned
    /\ [][NothingNewAfterDeadline]_vars
    /\ (oc.expired /\ ~Collecting) ~> (oc.pc = "done")

\* C30's case: the deadline passed in a run that got records from Bitcoin
\* and from Arweave, and the run has ended with its stats saved.
C30_Witness ==
    /\ oc.pc = "done"
    /\ oc.expired
    /\ oc.stats_file.data.bitcoin_ordinals >= 1
    /\ oc.stats_file.data.arweave >= 1
    /\ oc.stats_file.data.total_items >= 2

=============================================================================
